---- MODULE Spec2Model ----
(***************************************************************************)
(* Model of the modular-integer type generated by def_modular!             *)
(* (src/src/def_macro.rs).  One generated type is one ring: an unsigned    *)
(* representative type $int of Bits bits, its signed counterpart $sint,    *)
(* and a modulus MOD accepted by the overflow_check static assertion.      *)
(***************************************************************************)
EXTENDS Integers, Sequences, FiniteSets, TLC

\* ------------------------------------------------------------------ bounds
\* width in bits of $int / $sint of the modelled instantiation
Bits == 8
\* largest exponent handed to the public pow
MaxPowN == 4
\* largest magnitude of a raw integer handed to a constructor between
\* ring operations
MaxLit == 4
\* concurrent execution contexts that dereference the lazy statics
NumThreads == 2

VARIABLES
    MOD,                    \* $mod of the generated type
    overflowChecks,         \* build profile: do + and * panic on overflow?
    IS_MOD_PRIME,           \* lazy static cell (NotInit until first use)
    MOD_PRIME_FACTOR_LIST,  \* lazy static cell (NotInit until first use)
    x, y,                   \* the two most recently obtained values (self.0):
                            \* operators act on self = x and rhs = y
    last,                   \* the last operation: operands and outcome
    once,                   \* per lazy static: state of its Once guard
    pc,                     \* per thread: position inside a deref
    target,                 \* per thread: the lazy static being dereferenced
    seen,                   \* per thread, per static: value last observed
    initRuns                \* per lazy static: times the initialiser ran

vars == <<MOD, overflowChecks, IS_MOD_PRIME, MOD_PRIME_FACTOR_LIST, x, y,
          last, once, pc, target, seen, initRuns>>

ringVars == <<x, y, last>>

\* ------------------------------------------------------- integer types
RECURSIVE Pow2(_)
Pow2(n) == IF n = 0 THEN 1 ELSE 2 * Pow2(n - 1)

\* number of values of $int
IntCard == Pow2(Bits)

\* <$int>::max_value(), <$sint>::max_value(), <$sint>::min_value()
IntMax == IntCard - 1
SIntMax == Pow2(Bits - 1) - 1
SIntMin == -Pow2(Bits - 1)

\* number of bits needed to write v; v <= u64::max_value() iff BitLen(v) <= 64
RECURSIVE BitLen(_)
BitLen(v) == IF v = 0 THEN 0 ELSE 1 + BitLen(v \div 2)

IntRange == 0 .. IntMax
SIntRange == SIntMin .. SIntMax

\* raw inputs given to the constructors while operating on the ring
IntLits == {v \in IntRange : v <= MaxLit}
SIntLits == {v \in SIntRange : -MaxLit <= v /\ v <= MaxLit}

\* Rust's % on signed integers truncates toward zero: the sign of the
\* result is the sign of the dividend.
RemTrunc(a, m) == IF a >= 0 THEN a % m ELSE -((-a) % m)

\* `as $int`: two's-complement reinterpretation into the unsigned type
AsInt(v) == v % IntCard

\* ------------------------------------------------ compile-time gate
\* overflow_check without its last conjunct
OverflowCheckNoSquare(m) ==
    /\ m <= IntMax
    /\ m + m <= SIntMax
    /\ BitLen(m) <= 64

OverflowCheck(m) ==
    /\ m <= IntMax
    /\ m + m <= SIntMax
    /\ BitLen(m) <= 64
    /\ m * m < IntMax

\* moduli for which the type is generated at all
Moduli == {m \in 1 .. IntMax : OverflowCheck(m)}

\* ------------------------------------------- crate-level numeric helpers
\* is_prime(m): m has no divisor strictly between 1 and m
is_prime(m) == m > 1 /\ \A d \in 2 .. (m - 1) : m % d # 0

\* list_prime_factors(m): the distinct prime divisors of m, ascending
RECURSIVE PrimeFactorsFrom(_, _)
PrimeFactorsFrom(m, d) ==
    IF d > m THEN <<>>
    ELSE IF m % d = 0 /\ is_prime(d) THEN <<d>> \o PrimeFactorsFrom(m, d + 1)
    ELSE PrimeFactorsFrom(m, d + 1)

list_prime_factors(m) == PrimeFactorsFrom(m, 2)

\* Bezout coefficients of (a, b): a*c[1] + b*c[2] = c[3] = gcd(a, b)
RECURSIVE Bezout(_, _)
Bezout(a, b) ==
    IF a = 0 THEN <<0, 1, b>>
    ELSE LET r == Bezout(b % a, a)
         IN  <<r[2] - (b \div a) * r[1], r[1], r[3]>>

\* extended_gcd(a, b) -> ($int, $int, $int): the coefficients are carried in
\* the unsigned type, so a negative coefficient appears as its residue
\* modulo 2^Bits.
extended_gcd(a, b) ==
    LET c == Bezout(a, b) IN <<AsInt(c[1]), AsInt(c[2]), c[3]>>

\* ------------------------------------------------------- lazy statics
\* a lazy static holds an Option: <<>> is None, <<v>> is Some(v)
NotInit == <<>>

\* the cell of lazy static c
CellOf(c) == IF c = "prime" THEN IS_MOD_PRIME ELSE MOD_PRIME_FACTOR_LIST

\* what *$label::IS_MOD_PRIME evaluates to: the cached value, computed by
\* the initialiser on first use
IsModPrime ==
    IF IS_MOD_PRIME = NotInit THEN is_prime(MOD) ELSE IS_MOD_PRIME[1]

ModPrimeFactorList ==
    IF MOD_PRIME_FACTOR_LIST = NotInit THEN list_prime_factors(MOD)
    ELSE MOD_PRIME_FACTOR_LIST[1]

\* $label::MOD_PRIME_FACTOR_LIST.iter().all(|f| self.0 % f != 0)
NoFactorDivides(self) ==
    \A i \in 1 .. Len(ModPrimeFactorList) : self % ModPrimeFactorList[i] # 0

\* ------------------------------------------------- outcomes of a call
Val(v) == [kind |-> "value", out |-> v]
None == [kind |-> "none", out |-> 0]
Panic(why) == [kind |-> why, out |-> 0]

\* a + or * on $int whose mathematical result is v: panics when overflow
\* checks are compiled in, wraps otherwise
Checked(v) ==
    IF 0 <= v /\ v <= IntMax THEN Val(v)
    ELSE IF overflowChecks THEN Panic("overflow")
    ELSE Val(AsInt(v))

\* the same for a + on $sint
SChecked(v) ==
    IF SIntMin <= v /\ v <= SIntMax THEN Val(v)
    ELSE IF overflowChecks THEN Panic("overflow")
    ELSE Val(((v - SIntMin) % IntCard) + SIntMin)

\* ------------------------------------------------------ construction
\* new with the `int += $mod` step and the second reduction left out
NewSingleRem(int) == Val(AsInt(RemTrunc(int, MOD)))

\* Self::new(int: $sint)
new(int) ==
    LET i1 == RemTrunc(int, MOD)
        i2 == SChecked(i1 + MOD)
    IN  IF i2.kind # "value" THEN i2
        ELSE Val(AsInt(RemTrunc(i2.out, MOD)))

\* From<$int>::from
from_int(int) == Val(int % MOD)

\* From<$sint>::from
from_sint(int) == new(int)

\* Zero::zero, One::one, #[derive(Default)]
zero == Val(0)
one == Val(1)
default == Val(0)

\* ------------------------------------------------------- arithmetic
\* the values formed before the reduction
AddRaw(a, b) == a + b
SubRaw1(a) == a + MOD
SubRaw2(a, b) == (a + MOD) - b
MulRaw(a, b) == a * b

add(a, b) ==
    LET s == Checked(AddRaw(a, b))
    IN  IF s.kind = "value" THEN Val(s.out % MOD) ELSE s

sub(a, b) ==
    LET t == Checked(SubRaw1(a))
    IN  IF t.kind # "value" THEN t
        ELSE LET u == Checked(t.out - b)
             IN  IF u.kind = "value" THEN Val(u.out % MOD) ELSE u

mul(a, b) ==
    LET p == Checked(MulRaw(a, b))
    IN  IF p.kind = "value" THEN Val(p.out % MOD) ELSE p

\* Modular::pow
RECURSIVE pow(_, _)
pow(self, n) ==
    IF n = 0 THEN Val(1)
    ELSE LET root == pow(self, n \div 2)
         IN  IF root.kind # "value" THEN root
             ELSE LET result == mul(root.out, root.out)
                  IN  IF result.kind # "value" THEN result
                      ELSE IF n % 1 = 1 THEN mul(result.out, self)
                      ELSE result

\* Modular::prime_inv
prime_inv(self) ==
    IF ~IsModPrime THEN Panic("assert")
    ELSE pow(self, MOD - 2)

\* Modular::coprime_inv
coprime_inv(self) ==
    IF ~NoFactorDivides(self) THEN Panic("assert")
    ELSE LET r == extended_gcd(self, MOD)
         IN  IF r[3] = 1 THEN Val(r[1]) ELSE None

\* Modular::brute_force_inv: the loop `for i in 1..$mod`, from candidate i on
RECURSIVE BruteForceFrom(_, _)
BruteForceFrom(self, i) ==
    IF i >= MOD THEN None
    ELSE LET p == mul(self, i)
         IN  IF p.kind # "value" THEN p
             ELSE IF p.out = 1 THEN Val(i)
             ELSE BruteForceFrom(self, i + 1)

\* brute_force_inv scanning `2..$mod`
BruteForceInvFromTwo(self) == BruteForceFrom(self, 2)

brute_force_inv(self) == BruteForceFrom(self, 1)

\* an outcome tagged with the strategy that produced it
Via(path, r) == [kind |-> r.kind, out |-> r.out, path |-> path]

\* inv that takes the extended-Euclid path for every operand of a
\* composite ring
InvNoFactorTest(self) ==
    IF IsModPrime THEN Via("prime", prime_inv(self))
    ELSE Via("coprime", coprime_inv(self))

\* Modular::inv
inv(self) ==
    IF IsModPrime THEN Via("prime", prime_inv(self))
    ELSE IF NoFactorDivides(self) THEN Via("coprime", coprime_inv(self))
    ELSE Via("brute", brute_force_inv(self))

\* Div::div: self * rhs.inv().expect(..)
div(self, rhs) ==
    LET i == inv(rhs)
    IN  IF i.kind = "none" THEN Panic("expect")
        ELSE IF i.kind # "value" THEN Panic(i.kind)
        ELSE mul(self, i.out)


\* --------------------------------------------------------- the state
Cells == {"prime", "factors"}
Threads == 1 .. NumThreads
\* a thread that has not read a static yet has seen <<>>, else <<cell>>
NotSeen == <<>>

Init ==
    /\ MOD \in Moduli
    /\ overflowChecks \in BOOLEAN
    /\ IS_MOD_PRIME = NotInit
    /\ MOD_PRIME_FACTOR_LIST = NotInit
    /\ x = default.out
    /\ y = default.out
    /\ last = [op |-> "default", a |-> 0, b |-> 0, n |-> 0, inp |-> 0,
               kind |-> "value", out |-> default.out, path |-> "-"]
    /\ once = [c \in Cells |-> "INCOMPLETE"]
    /\ pc = [t \in Threads |-> "idle"]
    /\ target = [t \in Threads |-> "prime"]
    /\ seen = [t \in Threads |-> [c \in Cells |-> NotSeen]]
    /\ initRuns = [c \in Cells |-> 0]

\* a call returned r: a returned value becomes the newest obtained value x,
\* and the value that was newest stays at hand as y
Record(op, a, b, n, inp, r, path) ==
    /\ last' = [op |-> op, a |-> a, b |-> b, n |-> n, inp |-> inp,
                kind |-> r.kind, out |-> r.out, path |-> path]
    /\ IF r.kind = "value"
       THEN x' = r.out /\ y' = x
       ELSE UNCHANGED <<x, y>>

\* a single-threaded dereference of the lazy statics named in cs: each one
\* not yet initialised runs its initialiser and completes its Once
Deref(cs) ==
    /\ IS_MOD_PRIME' = IF "prime" \in cs THEN <<IsModPrime>> ELSE IS_MOD_PRIME
    /\ MOD_PRIME_FACTOR_LIST' =
          IF "factors" \in cs THEN <<ModPrimeFactorList>>
          ELSE MOD_PRIME_FACTOR_LIST
    /\ once' = [c \in Cells |-> IF c \in cs THEN "COMPLETE" ELSE once[c]]
    /\ initRuns' = [c \in Cells |->
          IF c \in cs /\ once[c] = "INCOMPLETE" THEN initRuns[c] + 1
          ELSE initRuns[c]]
    /\ UNCHANGED <<MOD, overflowChecks, pc, target, seen>>

\* the lazy statics inv dereferences on operand self
InvCells(self) == IF IsModPrime THEN {"prime"} ELSE {"prime", "factors"}

\* ------------------------------------------------- ring operations
NewOn(int) ==
    Record("new", 0, 0, 0, int, new(int), "-") /\ Deref({})

FromIntOn(int) ==
    Record("from_int", 0, 0, 0, int, from_int(int), "-") /\ Deref({})

FromSIntOn(int) ==
    Record("from_sint", 0, 0, 0, int, from_sint(int), "-") /\ Deref({})

New == \E int \in SIntLits : NewOn(int)

FromInt == \E int \in IntLits : FromIntOn(int)

FromSInt == \E int \in SIntLits : FromSIntOn(int)

Zero == Record("zero", 0, 0, 0, 0, zero, "-") /\ Deref({})

One == Record("one", 0, 0, 0, 0, one, "-") /\ Deref({})

Default == Record("default", 0, 0, 0, 0, default, "-") /\ Deref({})

Add == Record("add", x, y, 0, 0, add(x, y), "-") /\ Deref({})

Sub == Record("sub", x, y, 0, 0, sub(x, y), "-") /\ Deref({})

Mul == Record("mul", x, y, 0, 0, mul(x, y), "-") /\ Deref({})

Div ==
    /\ Record("div", x, y, 0, 0, div(x, y), inv(y).path)
    /\ Deref(InvCells(y))

Pow ==
    \E n \in 0 .. MaxPowN :
        Record("pow", x, 0, n, 0, pow(x, n), "-") /\ Deref({})

PrimeInv ==
    /\ Record("prime_inv", x, 0, 0, 0, prime_inv(x), "-")
    /\ Deref({"prime"})

CoprimeInv ==
    /\ Record("coprime_inv", x, 0, 0, 0, coprime_inv(x), "-")
    /\ Deref({"factors"})

BruteForceInv ==
    /\ Record("brute_force_inv", x, 0, 0, 0, brute_force_inv(x), "-")
    /\ Deref({})

Inv ==
    /\ Record("inv", x, 0, 0, 0, inv(x), inv(x).path)
    /\ Deref(InvCells(x))

Next ==
    \/ New \/ FromInt \/ FromSInt \/ Zero \/ One \/ Default
    \/ Add \/ Sub \/ Mul \/ Div \/ Pow
    \/ PrimeInv \/ CoprimeInv \/ BruteForceInv \/ Inv

Spec == Init /\ [][Next]_vars


\* ------------------------------------- the constructors on every input
\* one raw integer of either input type is drawn, then a constructor that
\* accepts it is applied to it
InitConstruct ==
    /\ MOD \in Moduli
    /\ overflowChecks \in BOOLEAN
    /\ IS_MOD_PRIME = NotInit
    /\ MOD_PRIME_FACTOR_LIST = NotInit
    /\ x = default.out
    /\ y = default.out
    /\ \E int \in SIntRange \cup IntRange :
          last = [op |-> "input", a |-> 0, b |-> 0, n |-> 0, inp |-> int,
                  kind |-> "value", out |-> default.out, path |-> "-"]
    /\ once = [c \in Cells |-> "INCOMPLETE"]
    /\ pc = [t \in Threads |-> "idle"]
    /\ target = [t \in Threads |-> "prime"]
    /\ seen = [t \in Threads |-> [c \in Cells |-> NotSeen]]
    /\ initRuns = [c \in Cells |-> 0]

ConstructNew ==
    last.op = "input" /\ last.inp \in SIntRange /\ NewOn(last.inp)

ConstructFromInt ==
    last.op = "input" /\ last.inp \in IntRange /\ FromIntOn(last.inp)

ConstructFromSInt ==
    last.op = "input" /\ last.inp \in SIntRange /\ FromSIntOn(last.inp)

NextConstruct == ConstructNew \/ ConstructFromInt \/ ConstructFromSInt

SpecConstruct == InitConstruct /\ [][NextConstruct]_vars

\* --------------------------------- one operation on every operand pair
\* two representatives left by earlier constructions are at hand, each lazy
\* static is either untouched or already initialised by an earlier use, and
\* one operation is applied
InitCall ==
    /\ MOD \in Moduli
    /\ overflowChecks \in BOOLEAN
    /\ IS_MOD_PRIME \in {NotInit, <<is_prime(MOD)>>}
    /\ MOD_PRIME_FACTOR_LIST \in {NotInit, <<list_prime_factors(MOD)>>}
    /\ x \in {from_int(int).out : int \in IntRange}
    /\ y \in {from_int(int).out : int \in IntRange}
    /\ last = [op |-> "input", a |-> 0, b |-> 0, n |-> 0, inp |-> 0,
               kind |-> "value", out |-> default.out, path |-> "-"]
    /\ once = [c \in Cells |->
                 IF CellOf(c) = NotInit THEN "INCOMPLETE" ELSE "COMPLETE"]
    /\ pc = [t \in Threads |-> "idle"]
    /\ target = [t \in Threads |-> "prime"]
    /\ seen = [t \in Threads |-> [c \in Cells |-> NotSeen]]
    /\ initRuns = [c \in Cells |-> IF CellOf(c) = NotInit THEN 0 ELSE 1]

CallAdd == last.op = "input" /\ Add

CallSub == last.op = "input" /\ Sub

CallMul == last.op = "input" /\ Mul

CallDiv == last.op = "input" /\ Div

CallPow == last.op = "input" /\ Pow

CallPrimeInv == last.op = "input" /\ PrimeInv

CallCoprimeInv == last.op = "input" /\ CoprimeInv

CallBruteForceInv == last.op = "input" /\ BruteForceInv

CallInv == last.op = "input" /\ Inv

NextCall ==
    \/ CallAdd \/ CallSub \/ CallMul \/ CallDiv \/ CallPow
    \/ CallPrimeInv \/ CallCoprimeInv \/ CallBruteForceInv \/ CallInv

SpecCall == InitCall /\ [][NextCall]_vars

\* ------------------------------- concurrent first use of the lazy statics
\* lazy_static!: Lazy::get runs Once::call_once(|| cell.set(Some(init())))
\* and then reads the cell.
\* the value the initialiser block of static c computes
InitValue(c) ==
    IF c = "prime" THEN is_prime(MOD) ELSE list_prime_factors(MOD)

\* a guard that also lets a caller in while the initialiser is running
OnceClaimableWhileRunning(s) == s # "COMPLETE"

\* Once::call_once may take the initialisation for itself in this state
OnceClaimable(s) == s = "INCOMPLETE"

\* Once::call_once returns without running the closure in this state
OnceDone(s) == s = "COMPLETE"

\* a thread starts dereferencing static c
BeginDeref(t, c) ==
    /\ pc[t] = "idle"
    /\ pc' = [pc EXCEPT ![t] = "call_once"]
    /\ target' = [target EXCEPT ![t] = c]
    /\ UNCHANGED <<MOD, overflowChecks, IS_MOD_PRIME, MOD_PRIME_FACTOR_LIST,
                   once, seen, initRuns>>
    /\ UNCHANGED ringVars

\* call_once finds the Once complete
CallOnceDone(t) ==
    /\ pc[t] = "call_once"
    /\ OnceDone(once[target[t]])
    /\ pc' = [pc EXCEPT ![t] = "read"]
    /\ UNCHANGED <<MOD, overflowChecks, IS_MOD_PRIME, MOD_PRIME_FACTOR_LIST,
                   once, target, seen, initRuns>>
    /\ UNCHANGED ringVars

\* call_once wins the Once: INCOMPLETE -> RUNNING in one atomic exchange;
\* a thread that finds it RUNNING waits
CallOnceClaim(t) ==
    /\ pc[t] = "call_once"
    /\ OnceClaimable(once[target[t]])
    /\ once' = [once EXCEPT ![target[t]] = "RUNNING"]
    /\ pc' = [pc EXCEPT ![t] = "init"]
    /\ UNCHANGED <<MOD, overflowChecks, IS_MOD_PRIME, MOD_PRIME_FACTOR_LIST,
                   target, seen, initRuns>>
    /\ UNCHANGED ringVars

\* the winner runs the initialiser block and stores Some(value)
RunInit(t) ==
    /\ pc[t] = "init"
    /\ IS_MOD_PRIME' =
          IF target[t] = "prime" THEN <<InitValue("prime")>>
          ELSE IS_MOD_PRIME
    /\ MOD_PRIME_FACTOR_LIST' =
          IF target[t] = "factors" THEN <<InitValue("factors")>>
          ELSE MOD_PRIME_FACTOR_LIST
    /\ initRuns' = [initRuns EXCEPT ![target[t]] = @ + 1]
    /\ pc' = [pc EXCEPT ![t] = "finish"]
    /\ UNCHANGED <<MOD, overflowChecks, once, target, seen>>
    /\ UNCHANGED ringVars

\* the closure returned: the Once becomes COMPLETE and waiters proceed
FinishInit(t) ==
    /\ pc[t] = "finish"
    /\ once' = [once EXCEPT ![target[t]] = "COMPLETE"]
    /\ pc' = [pc EXCEPT ![t] = "read"]
    /\ UNCHANGED <<MOD, overflowChecks, IS_MOD_PRIME, MOD_PRIME_FACTOR_LIST,
                   target, seen, initRuns>>
    /\ UNCHANGED ringVars

\* after call_once the caller reads the cell
ReadCell(t) ==
    /\ pc[t] = "read"
    /\ seen' = [seen EXCEPT ![t][target[t]] = <<CellOf(target[t])>>]
    /\ pc' = [pc EXCEPT ![t] = "idle"]
    /\ UNCHANGED <<MOD, overflowChecks, IS_MOD_PRIME, MOD_PRIME_FACTOR_LIST,
                   once, target, initRuns>>
    /\ UNCHANGED ringVars

NextLazy ==
    \E t \in Threads :
        \/ \E c \in Cells : BeginDeref(t, c)
        \/ CallOnceDone(t)
        \/ CallOnceClaim(t)
        \/ RunInit(t)
        \/ FinishInit(t)
        \/ ReadCell(t)

SpecLazy == Init /\ [][NextLazy]_vars


\* ------------------------------------------------------------ properties
RECURSIVE Gcd(_, _)
Gcd(a, b) == IF b = 0 THEN a ELSE Gcd(b, a % b)

IsComposite(m) == m > 1 /\ ~is_prime(m)

\* x mod m as a mathematical residue in [0, m)
MathMod(v, m) == ((v % m) + m) % m

InRing(v) == v \in 0 .. (MOD - 1)

Returned == last.kind = "value"

Panicked == last.kind \in {"assert", "expect", "overflow"}

\* C1: after any sequence of public operations every value obtained has its
\* stored representative r in 0 <= r < MOD.
C1_RepresentativeInRange ==
    /\ InRing(x)
    /\ InRing(y)
    /\ Returned => InRing(last.out)

\* C2: construction does not change when a multiple of MOD is added to the
\* raw input: every input b of the same type that differs from the input by
\* a multiple of MOD constructs the same value, and the value built from a
\* signed input (negative ones included) is its mathematical residue.
C2_ConstructModuloInvariant ==
    /\ last.op \in {"new", "from_sint"} =>
          /\ Returned
          /\ last.out = MathMod(last.inp, MOD)
          /\ \A b \in SIntRange :
                (b - last.inp) % MOD = 0 =>
                    /\ new(b) = Val(last.out)
                    /\ from_sint(b) = Val(last.out)
    /\ last.op = "from_int" =>
          /\ Returned
          /\ \A b \in IntRange :
                (b - last.inp) % MOD = 0 => from_int(b) = Val(last.out)

\* a negative input two moduli below its residue was constructed
C2_Witness ==
    /\ last.op = "new"
    /\ MOD = 15
    /\ last.inp = 2 - 15 - 15
    /\ last.out = 2

\* C3: on representatives a, b < MOD, add, sub and mul never form a value
\* outside the unsigned type before reducing, and return (a + b) mod MOD,
\* (a - b) mod MOD and (a * b) mod MOD.
C3_NoOverflowBeforeReduction ==
    (last.op \in {"add", "sub", "mul"} /\ InRing(last.a) /\ InRing(last.b)) =>
        /\ Returned
        /\ last.op = "add" =>
              /\ AddRaw(last.a, last.b) \in IntRange
              /\ last.out = MathMod(last.a + last.b, MOD)
        /\ last.op = "sub" =>
              /\ SubRaw1(last.a) \in IntRange
              /\ SubRaw2(last.a, last.b) \in IntRange
              /\ last.out = MathMod(last.a - last.b, MOD)
        /\ last.op = "mul" =>
              /\ MulRaw(last.a, last.b) \in IntRange
              /\ last.out = MathMod(last.a * last.b, MOD)

\* the largest product of the largest accepted modulus was formed
C3_Witness ==
    /\ last.op = "mul"
    /\ MOD * MOD < IntMax /\ (MOD + 1) * (MOD + 1) >= IntMax
    /\ last.a = MOD - 1
    /\ last.b = MOD - 1
    /\ Returned

\* C4: in a ring of prime modulus, inv of a nonzero representative a returns
\* Some(c) with a * c = one.
C4_PrimeInverse ==
    (last.op = "inv" /\ is_prime(MOD) /\ last.a \in 1 .. (MOD - 1)) =>
        /\ Returned
        /\ mul(last.a, last.out) = one

\* C5: pow(a, 0) is one and pow(a, n) = mul(pow(a, n - 1), a) for n >= 1.
C5_PowCorrect ==
    (last.op = "pow" /\ InRing(last.a)) =>
        /\ Returned
        /\ last.n = 0 => Val(last.out) = one
        /\ last.n >= 1 =>
              Val(last.out) = mul(pow(last.a, last.n - 1).out, last.a)

\* C6: div(a, b) is mul(a, inv(b)) when b has a modular inverse, and panics
\* when b has none.
C6_DivConsistentAndLoud ==
    (last.op = "div" /\ InRing(last.a) /\ InRing(last.b)) =>
        IF Gcd(last.b, MOD) = 1
        THEN /\ Returned
             /\ inv(last.b).kind = "value"
             /\ Val(last.out) = mul(last.a, inv(last.b).out)
        ELSE Panicked

\* C7: inv on a representative never fails an assertion: it returns Some or
\* None, takes the prime path only with the cached flag true, and the
\* extended-Euclid path only when no cached prime factor divides a.
C7_InvNeverAsserts ==
    (last.op = "inv" /\ InRing(last.a)) =>
        /\ last.kind \in {"value", "none"}
        /\ last.path = "prime" => IS_MOD_PRIME = <<TRUE>>
        /\ last.path = "coprime" =>
              /\ MOD_PRIME_FACTOR_LIST # NotInit
              /\ NoFactorDivides(last.a)

\* inv went through coprime_inv in a composite ring and returned
C7_Witness ==
    /\ last.op = "inv"
    /\ InRing(last.a)
    /\ IsComposite(MOD)
    /\ last.path = "coprime"
    /\ last.kind = "value"

\* C8: each lazy static is initialised at most once under every
\* interleaving; no caller reads None or a value other than the completed
\* one; an initialised static never changes.
LazyInv ==
    \A c \in Cells :
        /\ initRuns[c] <= 1
        /\ CellOf(c) \in {NotInit, <<InitValue(c)>>}
        /\ \A t \in Threads : seen[t][c] \in {NotSeen, <<<<InitValue(c)>>>>}

LazyStable ==
    \A c \in Cells : CellOf(c) # NotInit => CellOf(c)' = CellOf(c)

C8_InitOnce == []LazyInv /\ [][LazyStable]_vars

\* a second caller arrived at a static whose initialiser has run but whose
\* Once is not complete yet
C8_Witness ==
    \E t1, t2 \in Threads :
        /\ t1 # t2
        /\ target[t1] = target[t2]
        /\ pc[t1] = "finish"
        /\ pc[t2] = "call_once"
        /\ seen[t2][target[t2]] = NotSeen

\* C9: in a ring of composite modulus, coprime_inv (and inv) of a nonzero
\* representative a sharing no prime factor with MOD returns Some(c) with
\* 0 <= c < MOD and a * c mod MOD = 1.
C9_CoprimeInverse ==
    (/\ last.op \in {"coprime_inv", "inv"}
     /\ IsComposite(MOD)
     /\ last.a \in 1 .. (MOD - 1)
     /\ NoFactorDivides(last.a)) =>
        /\ Returned
        /\ InRing(last.out)
        /\ (last.a * last.out) % MOD = 1

\* the candidates c in [1, MOD) with a * c mod MOD = 1
Inverses(a) == {c \in 1 .. (MOD - 1) : (a * c) % MOD = 1}

\* C10: in a ring of composite modulus, inv of a representative sharing a
\* prime factor with MOD takes the brute-force path and returns None;
\* brute_force_inv returns Some(c) exactly when an inverse exists in
\* [1, MOD), and c is then the least one.
C10_BruteForce ==
    /\ (/\ last.op = "inv"
        /\ IsComposite(MOD)
        /\ InRing(last.a)
        /\ ~NoFactorDivides(last.a)) =>
            /\ last.path = "brute"
            /\ last.kind = "none"
    /\ (last.op = "brute_force_inv" /\ InRing(last.a)) =>
            IF Inverses(last.a) = {}
            THEN last.kind = "none"
            ELSE /\ Returned
                 /\ \A c \in Inverses(last.a) : last.out <= c
                 /\ last.out \in Inverses(last.a)

\* inv scanned a composite ring for a nonzero operand sharing a factor
C10_Witness ==
    /\ last.op = "inv"
    /\ IsComposite(MOD)
    /\ last.a \in 1 .. (MOD - 1)
    /\ ~NoFactorDivides(last.a)
    /\ last.path = "brute"
    /\ last.kind = "none"


====
